---- MODULE Spec2Model ----
(***************************************************************************)
(* Harmonic playground: the tension engine (src/src/engine.ts) and the     *)
(* microphone dwell gate of the animation loop (main module with chord     *)
(* mode, src/unnamed/part_000), its pitch mapper, and the detection tick   *)
(* with the chord classifier (src/src/audio.ts).                           *)
(*                                                                         *)
(* Numbers.  Tension, homeness and instability are fractions of 1 in the   *)
(* source; here they are integers in units of 1/10000 (One = 1.0).  Times  *)
(* are integer milliseconds; deltaTime is passed to decay in milliseconds  *)
(* and DecayAmount converts as the source's decayRate * seconds does.      *)
(* A pitch in Hz is written as its distance in cents (1/100 semitone)      *)
(* above middle C (261.63 Hz), the root of key C.                          *)
(***************************************************************************)
EXTENDS Integers, Sequences, FiniteSets, TLC

VARIABLES state, call, streak, since, steps,
          key, events, micActive, currentPitchHz, dwellDegree, dwellStartTime,
          now, lastTime, hold, frames,
          probe,
          chordMode, essentiaReady, modelReady, chordModelLoad, currentChord,
          currentChordQuality, currentChordFrames, candidateChord,
          candidateFrames, degreeFrameCounts, tick, run, ticks,
          micStream, analyser, pitchCallback, pitchDetector, animationId,
          scheduled, requested, pending, acquired, live, stopped

vars == <<state, call, streak, since, steps, key, events, micActive, currentPitchHz,
          dwellDegree, dwellStartTime, now, lastTime, hold, frames,
          probe,
          chordMode, essentiaReady, modelReady, chordModelLoad, currentChord,
          currentChordQuality, currentChordFrames, candidateChord,
          candidateFrames, degreeFrameCounts, tick, run, ticks,
          micStream, analyser, pitchCallback, pitchDetector, animationId,
          scheduled, requested, pending, acquired, live, stopped>>

engineVars == <<state, call, streak, since, steps>>

micVars == <<key, events, micActive, currentPitchHz, dwellDegree, dwellStartTime,
             now, lastTime, hold, frames>>

\* the classifier's module state in audio.ts, and the bookkeeping of ticks
classifierVars == <<essentiaReady, modelReady, chordModelLoad, currentChord,
                    currentChordQuality,
                    currentChordFrames, candidateChord, candidateFrames,
                    degreeFrameCounts, tick, run, ticks>>

chordVars == <<chordMode, classifierVars>>

\* the capture state of audio.ts (micStream, analyser, pitchCallback,
\* pitchDetector, animationId), the browser's side of it (the detectPitch
\* calls queued by requestAnimationFrame and the ids handed out, the
\* getUserMedia calls not yet answered, the streams handed out and those
\* whose tracks still run), and whether stopMicrophoneTracking has returned
\* with no start asked for since
captureVars == <<micStream, analyser, pitchCallback, pitchDetector, animationId,
                 scheduled, requested, pending, acquired, live, stopped>>

(***************************************************************************)
(* Bounds of the model                                                     *)
(***************************************************************************)
MaxSteps == 6

MaxFrames == 6

MaxEvents == 2

\* octaves above middle C the probed frequencies reach (one below always)
MaxOctave == 2

\* detection ticks in one run
MaxTicks == 13

\* detection ticks in one run that has animation frames as well
MaxModeTicks == 3

\* playNote calls in one run whose animation frames never end
MaxNotes == 3

\* presses of m in one run of the capture
MaxPresses == 4

\* counted detection ticks in one run whose absent frames never end
MaxHeard == 7

\* queued detection ticks that analyse a buffer in one run of the capture
MaxCaptureTicks == 4

(***************************************************************************)
(* Fixed-point scale and the engine's numeric literals                     *)
(***************************************************************************)
One == 10000

Epsilon == 100

decayRate == 1500

null == -9999

\* null of a value of type string | null (chord names and qualities)
nullName == "null"

Degrees == 1..7

\* deltaTime values handed to decay, in ms: an idle call, one 20 ms frame,
\* one second, and a long pause that takes 0.9 down to 0.009
DeltaTimes == {0, 20, 1000, 5940}

\* degrees handed to playNote when the caller is not held to 1..7: the two
\* numbers next to the range, the tonic and the leading tone
AnyDegrees == {0, 1, 7, 8}

\* deltaTime of the frames of a run that never ends, in ms: the first frame
\* (0), a second, and a long pause
LiveDeltaTimes == {0, 1000, 5940}

\* time between two animation frames, in ms
FrameTimes == {50, 100}

\* pitches the detector delivers, in cents above middle C: C, C#, D
Pitches == {0, 100, 200}

\* letters pressed to change key
KeyLetters == {"D"}

\* nodes clicked while the microphone is followed
ClickDegrees == {1, 7}

\* what the pitch estimator returns: middle C, or the C two octaves up
\* (1046.5 Hz); clarity in 1/100
EstimatedPitches == {0, 2400}

Clarities == {80, 90}

\* pitch classes sounding in a tick's buffer (0 = C): nothing, the triads
\* C-E-G and G-B-D
Sounds == {{}, {0, 4, 7}, {2, 7, 11}}

\* degrees the trained model reports above its threshold
DetectedSets == {{}, {1, 3, 5}, {2, 5, 7}}

\* pitch classes ringing in the buffers whose bins are read: one alone, or
\* one with its fifth
BinSounds == {{pc} : pc \in 0..11} \cup {{pc, (pc + 7) % 12} : pc \in 0..11}

\* frequencies handed to the mapper, every 5 cents from one octave below
\* middle C to MaxOctave octaves above it
MapCents == {5 * i : i \in (-240)..(240 * MaxOctave)}

(***************************************************************************)
(* engine.ts: tables                                                       *)
(***************************************************************************)
homeness ==
  [d \in Degrees |->
     CASE d = 1 -> One
       [] d = 3 -> 7000
       [] d = 5 -> 7000
       [] d = 6 -> 4000
       [] d = 2 -> 3000
       [] d = 4 -> 2000
       [] d = 7 -> 1000]

\* degrees absent from the table (1, 3, 5) read as undefined: no targets
resolvesTo ==
  [d \in Degrees |->
     CASE d = 7 -> <<1>>
       [] d = 4 -> <<3>>
       [] d = 2 -> <<1, 3>>
       [] d = 6 -> <<5, 1>>
       [] OTHER -> <<>>]

Range(s) == {s[i] : i \in 1..Len(s)}

Includes(s, x) == x \in Range(s)

\* slip: the new state created with a tension already in it
createInitialStateTense ==
  [lastNote |-> null, direction |-> "none",
   tensions |-> <<[degree |-> 7, amount |-> 9000]>>]

createInitialState ==
  [lastNote |-> null, direction |-> "none", tensions |-> <<>>]

NoResolution == [from |-> null, to |-> null]

(***************************************************************************)
(* The tensions Map, as the sequence of its entries in insertion order     *)
(***************************************************************************)
MapHas(m, d) == \E i \in 1..Len(m) : m[i].degree = d

MapGet(m, d) == (CHOOSE e \in Range(m) : e.degree = d).amount

\* Map.get(degree) ?? 0
TensionOf(m, d) == IF MapHas(m, d) THEN MapGet(m, d) ELSE 0

\* Map.set: an existing key keeps its place, a new key goes last
MapSet(m, d, v) ==
  IF MapHas(m, d)
  THEN [i \in 1..Len(m) |->
          IF m[i].degree = d THEN [degree |-> d, amount |-> v] ELSE m[i]]
  ELSE Append(m, [degree |-> d, amount |-> v])

MapKeys(m) == {m[i].degree : i \in 1..Len(m)}

(***************************************************************************)
(* engine.ts: playNote                                                     *)
(***************************************************************************)
\* the test of the resolution loop on one entry
Resolves(e, degree) ==
  Includes(resolvesTo[e.degree], degree) /\ e.amount > 0

\* entries the loop deletes, in iteration order
Resolved(m, degree) == SelectSeq(m, LAMBDA e : Resolves(e, degree))

\* the loop overwrites `resolution` on every hit: the last one is returned
PlayResolution(m, degree) ==
  LET r == Resolved(m, degree)
  IN IF r = <<>> THEN NoResolution
     ELSE [from |-> r[Len(r)].degree, to |-> degree]

AfterResolution(m, degree) == SelectSeq(m, LAMBDA e : ~Resolves(e, degree))

\* slip: the homeness itself taken as the tension to add
InstabilityAsHomeness(degree) == homeness[degree]

Instability(degree) == One - homeness[degree]

Min(a, b) == IF a < b THEN a ELSE b

Max(a, b) == IF a > b THEN a ELSE b

\* slip: the sum stored without Math.min(1, ...)
AddedTensionUnclamped(currentTension, degree) ==
  currentTension + Instability(degree)

\* Math.min(1, currentTension + (1 - noteHomeness))
AddedTension(currentTension, degree) ==
  Min(One, currentTension + Instability(degree))

\* slip: an equal homeness taken for a lower one
NotAbove(a, b) ==
  a \in DOMAIN homeness /\ b \in DOMAIN homeness /\ homeness[a] <= homeness[b]

\* a comparison a < b of two table look-ups, either of which is undefined
\* (and the comparison false) for a key the table does not have
Below(a, b) ==
  a \in DOMAIN homeness /\ b \in DOMAIN homeness /\ homeness[a] < homeness[b]

\* slip: the threshold at 0.75, which takes in degrees 3 and 5
IsUnstableBelowThreeQuarters(degree) ==
  degree \in DOMAIN homeness /\ 4 * homeness[degree] < 3 * One

\* if (noteHomeness < 0.5), false for a degree the table does not have
IsUnstable(degree) == degree \in DOMAIN homeness /\ 2 * homeness[degree] < One

\* slip: a note that is tense already not counted again
AddTensionOnce(m, degree) ==
  IF IsUnstable(degree) /\ ~MapHas(m, degree)
  THEN MapSet(m, degree, AddedTension(0, degree))
  ELSE m

\* if (noteHomeness < 0.5) state.tensions.set(degree, ...)
AddTension(m, degree) ==
  IF IsUnstable(degree)
  THEN MapSet(m, degree, AddedTension(TensionOf(m, degree), degree))
  ELSE m

NextDirection(s, degree) ==
  IF s.lastNote # null
  THEN IF Below(s.lastNote, degree) THEN "toward"
       ELSE IF Below(degree, s.lastNote) THEN "away"
       ELSE "none"
  ELSE s.direction

playNote(s, degree) ==
  [lastNote |-> degree,
   direction |-> NextDirection(s, degree),
   tensions |-> AddTension(AfterResolution(s.tensions, degree), degree)]

(***************************************************************************)
(* engine.ts: decay, getTotalTension                                       *)
(***************************************************************************)
\* slip: the rate subtracted on every call, whatever the elapsed time
DecayAmountPerCall(deltaTime) == decayRate

\* slip: nothing subtracted
DecayAmountNone(deltaTime) == 0

\* decayRate * deltaTime, deltaTime in ms (exact for even deltaTime)
DecayAmount(deltaTime) == (decayRate * deltaTime) \div 1000

\* slip: operands of the subtraction swapped
NewTensionSwapped(tension, deltaTime) ==
  Max(0, DecayAmount(deltaTime) - tension)

NewTension(tension, deltaTime) == Max(0, tension - DecayAmount(deltaTime))

\* slip: every entry kept, however little is left of it
DecayTensionsKeepingAll(m, deltaTime) ==
  [i \in 1..Len(m) |->
     [degree |-> m[i].degree,
      amount |-> NewTension(m[i].amount, deltaTime)]]

DecayTensions(m, deltaTime) ==
  LET stepped == [i \in 1..Len(m) |->
                    [degree |-> m[i].degree,
                     amount |-> NewTension(m[i].amount, deltaTime)]]
  IN SelectSeq(stepped, LAMBDA e : ~(e.amount < Epsilon))

decay(s, deltaTime) ==
  [s EXCEPT !.tensions = DecayTensions(s.tensions, deltaTime)]

RECURSIVE SumAmounts(_)
SumAmounts(m) == IF m = <<>> THEN 0 ELSE Head(m).amount + SumAmounts(Tail(m))

\* Math.min(1, total / 3), kept exact by comparing total with 3
getTotalTension(s) ==
  LET total == SumAmounts(s.tensions)
  IN IF total > 3 * One THEN One ELSE total \div 3

(***************************************************************************)
(* Main module: keys, pitch mapper                                         *)
(***************************************************************************)
DWELL_THRESHOLD_MS == 150

\* a frequency value: a positive finite one is given by its cents above
\* middle C; the others are the values the guards of the mapper name
Hz(c) == [kind |-> "positive", cents |-> c]

nullHz == [kind |-> "null", cents |-> 0]

\* the numbers the first guard of the mapper turns away
InvalidHz ==
  {[kind |-> k, cents |-> 0] : k \in {"nan", "zero", "negative", "infinite"}}

Keys == {"C", "C#", "Db", "D", "D#", "Eb", "E", "F", "F#", "Gb", "G", "G#",
         "Ab", "A", "A#", "Bb", "B"}

\* rootFrequencies, each root as cents above 261.63 Hz (the table holds the
\* equal-tempered values rounded to 0.01 Hz)
rootFrequencies ==
  [k \in Keys |->
     CASE k = "C" -> 0
       [] k \in {"C#", "Db"} -> 100
       [] k = "D" -> 200
       [] k \in {"D#", "Eb"} -> 300
       [] k = "E" -> 400
       [] k = "F" -> 500
       [] k \in {"F#", "Gb"} -> 600
       [] k = "G" -> 700
       [] k \in {"G#", "Ab"} -> 800
       [] k = "A" -> 900
       [] k \in {"A#", "Bb"} -> 1000
       [] k = "B" -> 1100]

\* slip: the root of C taken whatever the key
getRootHzOfC(k) == rootFrequencies["C"]

getRootHz(k) == rootFrequencies[k]

keyCycles ==
  [l \in {"C", "D", "E", "F", "G", "A", "B"} |->
     CASE l = "C" -> <<"C", "C#">>
       [] l = "D" -> <<"D", "Db">>
       [] l = "E" -> <<"E", "Eb">>
       [] l = "F" -> <<"F", "F#">>
       [] l = "G" -> <<"G", "Gb">>
       [] l = "A" -> <<"A", "Ab">>
       [] l = "B" -> <<"B", "Bb">>]

\* the key a press of letter l selects: the next variant of l's cycle when
\* the current key is in it, the natural otherwise
NextKey(k, l) ==
  LET cycle == keyCycles[l]
  IN IF \E i \in 1..Len(cycle) : cycle[i] = k
     THEN LET i == CHOOSE j \in 1..Len(cycle) : cycle[j] = k
          IN cycle[((i - 1 + 1) % Len(cycle)) + 1]
     ELSE cycle[1]

\* the % of the source: the remainder takes the sign of the dividend
JsRem(a, n) == IF a >= 0 THEN a % n ELSE -((-a) % n)

scaleDegrees ==
  <<[semi |-> 0, degree |-> 1], [semi |-> 200, degree |-> 2],
    [semi |-> 400, degree |-> 3], [semi |-> 500, degree |-> 4],
    [semi |-> 700, degree |-> 5], [semi |-> 900, degree |-> 6],
    [semi |-> 1100, degree |-> 7]>>

\* slip: the neutral result flagged as out of key
NeutralPositionOffKey ==
  [pos |-> <<"xy", 50, 50>>, inKey |-> FALSE, degree |-> null,
   adjacentDegrees |-> <<>>]

\* { x: 50, y: 50, inKey: true, degree: null, adjacentDegrees: [] }
NeutralPosition ==
  [pos |-> <<"xy", 50, 50>>, inKey |-> TRUE, degree |-> null,
   adjacentDegrees |-> <<>>]

\* ((semitones % 12) + 12) % 12, then values above 11.5 treated as 0
OctaveSemitones(semitones) ==
  LET o == JsRem(JsRem(semitones, 1200) + 1200, 1200)
  IN IF o > 1150 THEN 0 ELSE o

\* index of the last scale degree whose semitone is <= octaveSemitones
LowerIndex(octaveSemitones) ==
  CHOOSE i \in 1..Len(scaleDegrees) :
    /\ scaleDegrees[i].semi <= octaveSemitones
    /\ \A j \in 1..Len(scaleDegrees) :
         scaleDegrees[j].semi <= octaveSemitones => j <= i

InKey(distToNearest) == distToNearest < 25

hzToPosition(hz, k) ==
  IF hz.kind # "positive" THEN NeutralPosition
  ELSE
    LET semitones == hz.cents - getRootHz(k)
        octaveSemitones == OctaveSemitones(semitones)
        i == LowerIndex(octaveSemitones)
        lowerDegree == scaleDegrees[i]
        upperDegree == scaleDegrees[(i % Len(scaleDegrees)) + 1]
        d0 == octaveSemitones - lowerDegree.semi
        distToLower == IF d0 < 0 THEN d0 + 1200 ELSE d0
        g0 == upperDegree.semi - lowerDegree.semi
        gap == IF g0 <= 0 THEN g0 + 1200 ELSE g0
        distToNearest == Min(distToLower, gap - distToLower)
        nearestDegree == IF distToLower < gap - distToLower
                         THEN lowerDegree ELSE upperDegree
    IN IF InKey(distToNearest)
       THEN [pos |-> <<"node", nearestDegree.degree>>, inKey |-> TRUE,
             degree |-> nearestDegree.degree, adjacentDegrees |-> <<>>]
       ELSE [pos |-> <<"between", lowerDegree.degree, upperDegree.degree,
                       distToLower, gap>>,
             inKey |-> FALSE, degree |-> null,
             adjacentDegrees |-> <<lowerDegree.degree, upperDegree.degree>>]


(***************************************************************************)
(* audio.ts: chord patterns, templates and the two matchers                *)
(***************************************************************************)
FRAMES_TO_ACTIVATE == 5

FRAMES_TO_ESTABLISH == 6

\* HYSTERESIS_BONUS = 0.08
HYSTERESIS_BONUS == 800

NoMatch == [name |-> nullName, quality |-> nullName]

CHORD_PATTERNS ==
  <<[degrees |-> {1, 3, 5}, name |-> "I", quality |-> "major"],
    [degrees |-> {2, 4, 6}, name |-> "ii", quality |-> "minor"],
    [degrees |-> {3, 5, 7}, name |-> "iii", quality |-> "minor"],
    [degrees |-> {4, 6, 1}, name |-> "IV", quality |-> "major"],
    [degrees |-> {5, 7, 2}, name |-> "V", quality |-> "major"],
    [degrees |-> {6, 1, 3}, name |-> "vi", quality |-> "minor"],
    [degrees |-> {7, 2, 4}, name |-> "vii", quality |-> "dim"],   \* vii with the degree sign
    [degrees |-> {1, 4, 5}, name |-> "sus4", quality |-> "sus"],
    [degrees |-> {1, 2, 5}, name |-> "sus2", quality |-> "sus"],
    [degrees |-> {1, 3, 5, 7}, name |-> "maj7", quality |-> "major"],
    [degrees |-> {5, 7, 2, 4}, name |-> "V7", quality |-> "7"]>>

chordTemplates ==
  <<[name |-> "I", degrees |-> {1, 3, 5}, quality |-> "major"],
    [name |-> "ii", degrees |-> {2, 4, 6}, quality |-> "minor"],
    [name |-> "iii", degrees |-> {3, 5, 7}, quality |-> "minor"],
    [name |-> "IV", degrees |-> {4, 6, 1}, quality |-> "major"],
    [name |-> "V", degrees |-> {5, 7, 2}, quality |-> "major"],
    [name |-> "vi", degrees |-> {6, 1, 3}, quality |-> "minor"],
    [name |-> "vii", degrees |-> {7, 2, 4}, quality |-> "dim"],
    [name |-> "V7", degrees |-> {5, 7, 2, 4}, quality |-> "7"]>>

\* the degrees of a set in rising order, as the loop over the model's
\* outputs pushes them
RECURSIVE Ascending(_)
Ascending(ds) ==
  IF ds = {} THEN <<>>
  ELSE LET least == CHOOSE d \in ds : \A e \in ds : d <= e
       IN <<least>> \o Ascending(ds \ {least})

\* degrees.join('-')
RECURSIVE Join(_)
Join(seq) ==
  IF Len(seq) = 1 THEN ToString(seq[1])
  ELSE ToString(seq[1]) \o "-" \o Join(Tail(seq))

\* slip: recall alone, on the same scale
PatternScoreRecallOnly(detected, pattern) ==
  LET matches == Cardinality(detected \cap pattern.degrees)
  IN 2 * (12 \div Cardinality(pattern.degrees)) * matches * Cardinality(detected)

\* (precision + recall) / 2 of one pattern, times 24 * degrees.length
PatternScore(detected, pattern) ==
  LET matches == Cardinality(detected \cap pattern.degrees)
  IN 12 * matches
       + (12 \div Cardinality(pattern.degrees)) * matches * Cardinality(detected)

\* the pattern the loop ends with: the first of those with the top score
BestPattern(detected) ==
  CHOOSE i \in 1..Len(CHORD_PATTERNS) :
    /\ \A j \in 1..Len(CHORD_PATTERNS) :
         PatternScore(detected, CHORD_PATTERNS[j])
           <= PatternScore(detected, CHORD_PATTERNS[i])
    /\ \A j \in 1..(i - 1) :
         PatternScore(detected, CHORD_PATTERNS[j])
           < PatternScore(detected, CHORD_PATTERNS[i])

\* bestScore < 0.6 compared on the same scale
matchDegreePattern(detected) ==
  IF detected = {} THEN NoMatch
  ELSE LET best == CHORD_PATTERNS[BestPattern(detected)]
       IN IF 10 * PatternScore(detected, best) < 144 * Cardinality(detected)
          THEN [name |-> Join(Ascending(detected)), quality |-> "unknown"]
          ELSE [name |-> best.name, quality |-> best.quality]

\* the sum of the scores of the degrees of ds, degree by degree
SumScores(degreeScores, ds) ==
  LET score(d) == IF d \in ds THEN degreeScores[d] ELSE 0
  IN score(1) + score(2) + score(3) + score(4) + score(5) + score(6) + score(7)

\* finalScore of one template, times 120: chord energy, minus 0.3 of the
\* mean energy off the chord, plus the bonus of the current chord
TemplateScore(degreeScores, template, current) ==
  LET n == Cardinality(template.degrees)
      others == Degrees \ template.degrees
  IN (120 \div n) * SumScores(degreeScores, template.degrees)
       - (36 \div Cardinality(others)) * SumScores(degreeScores, others)
       + (IF template.name = current THEN 120 * HYSTERESIS_BONUS ELSE 0)

\* results[0] after the sort by falling score (the sort keeps the order of
\* equal scores)
BestTemplate(degreeScores, current) ==
  CHOOSE i \in 1..Len(chordTemplates) :
    /\ \A j \in 1..Len(chordTemplates) :
         TemplateScore(degreeScores, chordTemplates[j], current)
           <= TemplateScore(degreeScores, chordTemplates[i], current)
    /\ \A j \in 1..(i - 1) :
         TemplateScore(degreeScores, chordTemplates[j], current)
           < TemplateScore(degreeScores, chordTemplates[i], current)

\* bestMatch.score > 0.25
matchChordTemplate(degreeScores, current) ==
  LET best == chordTemplates[BestTemplate(degreeScores, current)]
  IN IF TemplateScore(degreeScores, best, current) > 120 * 2500
     THEN [name |-> best.name, quality |-> best.quality]
     ELSE NoMatch

(***************************************************************************)
(* audio.ts: hysteresis of the two strategies.  h holds currentChord,      *)
(* currentChordQuality, currentChordFrames, candidateChord, candidateFrames*)
(***************************************************************************)
Hysteresis ==
  [currentChord |-> currentChord, currentChordQuality |-> currentChordQuality,
   currentChordFrames |-> currentChordFrames,
   candidateChord |-> candidateChord, candidateFrames |-> candidateFrames]

\* slip: the counters left as they are when nothing matches
AbsentStalled(h, drop) == h

\* the no-match branch, with the amount taken off currentChordFrames
Absent(h, drop) ==
  LET left == Max(0, h.currentChordFrames - drop)
  IN [h EXCEPT !.candidateFrames = Max(0, h.candidateFrames - 1),
               !.currentChordFrames = left,
               !.currentChord = IF left = 0 THEN nullName ELSE @,
               !.currentChordQuality = IF left = 0 THEN nullName ELSE @]

\* slip: one frame more asked of a candidate
EstablishedLate(count) == count > FRAMES_TO_ESTABLISH

\* candidateFrames >= FRAMES_TO_ESTABLISH
Established(count) == count >= FRAMES_TO_ESTABLISH

\* detectWithModel, from `if (match)` on
HysteresisWithModel(h, match) ==
  IF match # NoMatch
  THEN IF match.name = h.candidateChord
       THEN IF Established(h.candidateFrames + 1)
               \/ match.name = h.currentChord
            THEN [currentChord |-> match.name,
                  currentChordQuality |-> match.quality,
                  currentChordFrames |-> h.currentChordFrames + 1,
                  candidateChord |-> nullName, candidateFrames |-> 0]
            ELSE [h EXCEPT !.candidateFrames = @ + 1]
       ELSE IF match.name # h.currentChord
            THEN [h EXCEPT !.candidateChord = match.name,
                           !.candidateFrames = 1]
            ELSE [h EXCEPT !.currentChordFrames = @ + 1]
  ELSE Absent(h, 1)

\* detectWithTemplates, from `if (match)` on
HysteresisWithTemplates(h, match) ==
  IF match # NoMatch
  THEN IF match.name = h.candidateChord
       THEN IF Established(h.candidateFrames + 1)
            THEN [currentChord |-> match.name,
                  currentChordQuality |-> match.quality,
                  currentChordFrames |-> 1,
                  candidateChord |-> nullName, candidateFrames |-> 0]
            ELSE [h EXCEPT !.candidateFrames = @ + 1]
       ELSE IF match.name # h.currentChord
            THEN [h EXCEPT !.candidateChord = match.name,
                           !.candidateFrames = 1]
            ELSE [h EXCEPT !.currentChordFrames = @ + 1]
  ELSE Absent(h, 2)

(***************************************************************************)
(* audio.ts: degree scores of the template strategy and their smoothing    *)
(***************************************************************************)
\* keyOffsets[config.key] || 0: the table has the sharp names only
keyOffsets ==
  [k \in Keys |->
     CASE k = "A" -> 9 [] k = "A#" -> 10 [] k = "B" -> 11 [] k = "C" -> 0
       [] k = "C#" -> 1 [] k = "D" -> 2 [] k = "D#" -> 3 [] k = "E" -> 4
       [] k = "F" -> 5 [] k = "F#" -> 6 [] k = "G" -> 7 [] k = "G#" -> 8
       [] OTHER -> 0]

majorScaleIntervals == <<0, 2, 4, 5, 7, 9, 11>>

\* the chroma vector of a buffer in which the pitch classes of `sound` ring
Hpcp(sound) == [i \in 0..11 |-> IF i \in sound THEN One ELSE 0]

DegreeScores(hpcp, k) ==
  [d \in Degrees |-> hpcp[(keyOffsets[k] + majorScaleIntervals[d]) % 12]]

\* tf.tensor2d([hpcp]): the vector the trained model is run on
ModelInput(hpcp) == hpcp

MaxScore(degreeScores) ==
  CHOOSE m \in Range(degreeScores) : \A x \in Range(degreeScores) : x <= m

\* place of a degree after the sort by falling score
Rank(degreeScores, d) ==
  Cardinality({e \in Degrees :
                 \/ degreeScores[e] > degreeScores[d]
                 \/ degreeScores[e] = degreeScores[d] /\ e < d})

\* score > maxScore * 0.4 and score > 0.15, the first four of them
RawDegrees(degreeScores) ==
  LET maxScore == MaxScore(degreeScores)
  IN {d \in Degrees :
        /\ 10 * degreeScores[d] > 4 * maxScore
        /\ degreeScores[d] > 1500
        /\ Rank(degreeScores, d) < 4}

\* computeDegreesFromDegreeScores: the counters after the call (untouched
\* when maxScore < 0.1)
SmoothedCounts(counts, degreeScores) ==
  IF MaxScore(degreeScores) < 1000 THEN counts
  ELSE LET rawDegrees == RawDegrees(degreeScores)
       IN [d \in Degrees |->
             IF d \in rawDegrees
             THEN Min(counts[d] + 1, FRAMES_TO_ACTIVATE + 3)
             ELSE Max(counts[d] - 2, 0)]

\* computeDegreesFromDegreeScores: the degrees returned, given the counters
\* after the call
SmoothedDegrees(smoothed, degreeScores) ==
  IF MaxScore(degreeScores) < 1000 THEN <<>>
  ELSE Ascending({d \in Degrees : smoothed[d] >= FRAMES_TO_ACTIVATE})

(***************************************************************************)
(* Bookkeeping of calls (not program state): the last engine call and its  *)
(* result; the run of consecutive playNote calls on one degree that began  *)
(* with that degree free of tension; and the tensions as they stood after  *)
(* the latest playNote, with the decay applied since.                      *)
(***************************************************************************)
NoCall == [op |-> "none", degree |-> null, deltaTime |-> 0,
           result |-> NoResolution]

NoStreak == [degree |-> null, count |-> 0]

StreakAfterPlay(s, k, degree) ==
  IF k.degree = degree /\ k.count > 0
  THEN [degree |-> degree, count |-> k.count + 1]
  ELSE IF ~MapHas(s.tensions, degree)
       THEN [degree |-> degree, count |-> 1]
       ELSE NoStreak

\* slip: the resolution dropped from what the call hands back
PlayCallWithoutResolution(s, degree) ==
  [op |-> "playNote", degree |-> degree, deltaTime |-> 0,
   result |-> NoResolution]

\* const resolution = playNote(state, degree), at either call site
PlayCall(s, degree) ==
  [op |-> "playNote", degree |-> degree, deltaTime |-> 0,
   result |-> PlayResolution(s.tensions, degree)]

DecayCall(deltaTime) ==
  [op |-> "decay", degree |-> null, deltaTime |-> deltaTime,
   result |-> NoResolution]

NoSince == [tensions |-> <<>>, decayed |-> 0]

SinceAfterPlay(s) == [tensions |-> s.tensions, decayed |-> 0]

SinceAfterDecay(k, deltaTime) ==
  [k EXCEPT !.decayed = k.decayed + DecayAmount(deltaTime)]

NoHold == [degree |-> null, start |-> 0, fires |-> 0, clean |-> FALSE]

\* a call of the mapper: its arguments, whether it has returned, and what
\* it returned
NoProbe == [hz |-> nullHz, key |-> "C", done |-> FALSE,
            result |-> NeutralPosition]

\* the latest detection tick: the level of its buffer (RMS in 1/1000), what
\* it ran (and which chord strategy) and what it handed to the callback
NoTick == [rms |-> 0, ticked |-> FALSE, ranPitch |-> FALSE, ranChord |-> FALSE,
           hz |-> nullHz, degrees |-> <<>>, chordName |-> nullName,
           chordQuality |-> nullName, strategy |-> "none"]

\* the classifier's latest match, how many classified frames in a row have
\* had it, and whether the first of them found no chord and no candidate
NoRun == [match |-> nullName, count |-> 0, fresh |-> FALSE]

InitEngine ==
  /\ state = createInitialState
  /\ call = NoCall
  /\ streak = NoStreak
  /\ since = NoSince
  /\ steps = 0

InitMic ==
  /\ key = "C"
  /\ events = 0
  /\ micActive = FALSE
  /\ currentPitchHz = nullHz
  /\ dwellDegree = null
  /\ dwellStartTime = 0
  /\ now = 0
  /\ lastTime = 0
  /\ hold = NoHold
  /\ frames = 0

InitClassifier ==
  /\ chordMode = FALSE
  /\ essentiaReady = FALSE
  /\ modelReady = FALSE
  /\ chordModelLoad = "pending"
  /\ currentChord = nullName
  /\ currentChordQuality = nullName
  /\ currentChordFrames = 0
  /\ candidateChord = nullName
  /\ candidateFrames = 0
  /\ degreeFrameCounts = [d \in Degrees |-> 0]
  /\ tick = NoTick
  /\ run = NoRun
  /\ ticks = 0

InitCapture ==
  /\ micStream = null
  /\ analyser = null
  /\ pitchCallback = FALSE
  /\ pitchDetector = FALSE
  /\ animationId = null
  /\ scheduled = {}
  /\ requested = 0
  /\ pending = 0
  /\ acquired = 0
  /\ live = {}
  /\ stopped = FALSE

Init ==
  InitEngine /\ InitMic /\ InitClassifier /\ InitCapture /\ probe = NoProbe

(***************************************************************************)
(* The engine driven call by call                                          *)
(***************************************************************************)
PlayNote(degree) ==
  /\ steps < MaxSteps
  /\ state' = playNote(state, degree)
  /\ call' = PlayCall(state, degree)
  /\ streak' = StreakAfterPlay(state, streak, degree)
  /\ since' = SinceAfterPlay(playNote(state, degree))
  /\ steps' = steps + 1
  /\ UNCHANGED <<micVars, probe, captureVars, chordVars>>

Decay(deltaTime) ==
  /\ steps < MaxSteps
  /\ state' = decay(state, deltaTime)
  /\ call' = DecayCall(deltaTime)
  /\ streak' = NoStreak
  /\ since' = SinceAfterDecay(since, deltaTime)
  /\ steps' = steps + 1
  /\ UNCHANGED <<micVars, probe, captureVars, chordVars>>

DoPlayNote == \E degree \in Degrees : PlayNote(degree)

DoDecay == \E deltaTime \in DeltaTimes : Decay(deltaTime)

Next == DoPlayNote \/ DoDecay

Spec == Init /\ [][Next]_vars

\* a note played while the animation loop runs on
PlayNoteLive(degree) == steps < MaxNotes /\ PlayNote(degree)

\* animate(time) with the microphone off: decay(state, deltaTime), and the
\* next frame requested.  Frames are not counted and the decay applied since
\* the latest playNote is not tracked, so that the loop can run for ever.
FrameDecay(deltaTime) ==
  /\ state' = decay(state, deltaTime)
  /\ call' = DecayCall(deltaTime)
  /\ streak' = NoStreak
  /\ since' = NoSince
  /\ UNCHANGED <<steps, micVars, probe, captureVars, chordVars>>

DoPlayNoteLive == \E degree \in Degrees : PlayNoteLive(degree)

DoFrameDecay == \E deltaTime \in LiveDeltaTimes : FrameDecay(deltaTime)

\* the frames that pass time
DoFramePassingTime ==
  \E deltaTime \in LiveDeltaTimes : deltaTime > 0 /\ FrameDecay(deltaTime)

NextLive == DoPlayNoteLive \/ DoFrameDecay

\* every frame requests the next one, so frames that pass time keep coming
SpecLive == Init /\ [][NextLive]_vars /\ WF_vars(DoFramePassingTime)

\* the engine called with whatever number its signature (degree: number)
\* admits
DoPlayNoteAny == \E degree \in AnyDegrees : PlayNote(degree)

NextAny == DoPlayNoteAny \/ DoDecay

SpecAny == Init /\ [][NextAny]_vars

(***************************************************************************)
(* Main module: the animation frame, the pitch callback, clicks and keys   *)
(***************************************************************************)
\* slip: the comparison turned round
DwellElapsedInverted(time, start) == time - start <= DWELL_THRESHOLD_MS

\* now - dwellStartTime >= DWELL_THRESHOLD_MS
DwellElapsed(time, start) == time - start >= DWELL_THRESHOLD_MS

\* slip: an invalid number returned on like silence
ListeningToValid == micActive /\ currentPitchHz.kind = "positive"

\* updateBurningLight goes past its early returns
Listening == micActive /\ currentPitchHz # nullHz

\* the degree this frame's pitch maps to, null when there is none
FrameDegree ==
  IF Listening THEN hzToPosition(currentPitchHz, key).degree ELSE null

\* slip: the timer started only when no candidate is held
StartsDwellFromNone == FrameDegree # null /\ dwellDegree = null

\* the frame maps to a degree that is not the candidate: "New note - start
\* dwell timer"
StartsDwell == FrameDegree # null /\ FrameDegree # dwellDegree

\* the dwell branch that calls playNote
DwellFires(time) ==
  /\ FrameDegree # null
  /\ FrameDegree = dwellDegree
  /\ DwellElapsed(time, dwellStartTime)

\* the run of consecutive frames mapped to one degree: its first frame, the
\* playNote calls the microphone path made in it, and whether it began with
\* no dwell candidate held
HoldAfterFrame(time) ==
  LET fired == IF DwellFires(time) THEN 1 ELSE 0
  IN IF FrameDegree = null THEN NoHold
     ELSE IF hold.degree = FrameDegree
          THEN [hold EXCEPT !.fires = @ + fired]
          ELSE [degree |-> FrameDegree, start |-> time, fires |-> fired,
                clean |-> (dwellDegree = null)]

\* animate(time): decay, then updateBurningLight with its dwell detection
Animate(dt) ==
  LET time == now + dt
      deltaTime == IF lastTime = 0 THEN 0 ELSE time - lastTime
      decayed == decay(state, deltaTime)
      fire == DwellFires(time)
  IN /\ frames < MaxFrames
     /\ state' = IF fire THEN playNote(decayed, FrameDegree) ELSE decayed
     /\ dwellDegree' =
          IF ~Listening THEN dwellDegree
          ELSE IF FrameDegree = null THEN null
          ELSE IF FrameDegree = dwellDegree
               THEN (IF fire THEN null ELSE dwellDegree)
               ELSE FrameDegree
     /\ dwellStartTime' = IF StartsDwell THEN time ELSE dwellStartTime
     /\ now' = time
     /\ lastTime' = time
     /\ frames' = frames + 1
     /\ hold' = HoldAfterFrame(time)
     /\ call' = IF fire THEN PlayCall(decayed, FrameDegree)
                ELSE DecayCall(deltaTime)
     /\ streak' = IF fire THEN StreakAfterPlay(decayed, NoStreak, FrameDegree)
                  ELSE NoStreak
     /\ since' = IF fire THEN SinceAfterPlay(playNote(decayed, FrameDegree))
                 ELSE SinceAfterDecay(since, deltaTime)
     /\ UNCHANGED <<steps, key, events, micActive, currentPitchHz>>
     /\ UNCHANGED <<probe, captureVars, chordVars>>

\* the callback given to startMicrophoneTracking: currentPitchHz = hz
OnPitch(hz) ==
  /\ micActive
  /\ currentPitchHz' = hz
  /\ UNCHANGED <<engineVars, key, events, micActive, dwellDegree, dwellStartTime,
                 now, lastTime, hold, frames>>
  /\ UNCHANGED <<probe, captureVars, chordVars>>

\* onNodeClick(degree): playNote(state, degree)
OnNodeClick(degree) ==
  /\ events < MaxEvents
  /\ state' = playNote(state, degree)
  /\ call' = PlayCall(state, degree)
  /\ streak' = StreakAfterPlay(state, streak, degree)
  /\ since' = SinceAfterPlay(playNote(state, degree))
  /\ events' = events + 1
  /\ UNCHANGED <<steps, key, micActive, currentPitchHz, dwellDegree,
                 dwellStartTime, now, lastTime, hold, frames>>
  /\ UNCHANGED <<probe, captureVars, chordVars>>

\* keydown of a key letter: the key changes and the state is created anew
KeyChange(letter) ==
  /\ events < MaxEvents
  /\ key' = NextKey(key, letter)
  /\ state' = createInitialState
  /\ call' = NoCall
  /\ streak' = NoStreak
  /\ since' = NoSince
  /\ events' = events + 1
  /\ UNCHANGED <<steps, micActive, currentPitchHz, dwellDegree,
                 dwellStartTime, now, lastTime, hold, frames>>
  /\ UNCHANGED <<probe, captureVars, chordVars>>

\* keydown of m with the microphone off, taken at the point where the
\* awaited startMicrophoneTracking has returned true (a refused capture
\* changes nothing)
MicOn ==
  /\ events < MaxEvents
  /\ ~micActive
  /\ micActive' = TRUE
  /\ events' = events + 1
  /\ UNCHANGED <<engineVars, key, currentPitchHz,
                 dwellDegree, dwellStartTime, now, lastTime, hold, frames>>
  /\ UNCHANGED <<probe, captureVars, chordVars>>

\* keydown of m with the microphone on
MicOff ==
  /\ events < MaxEvents
  /\ micActive
  /\ micActive' = FALSE
  /\ currentPitchHz' = nullHz
  /\ events' = events + 1
  /\ UNCHANGED <<engineVars, key, dwellDegree,
                 dwellStartTime, now, lastTime, hold, frames>>
  /\ UNCHANGED <<probe, captureVars, chordVars>>

DoAnimate == \E dt \in FrameTimes : Animate(dt)

DoOnPitch == \E hz \in {Hz(c) : c \in Pitches} \cup {nullHz} : OnPitch(hz)

DoNodeClick == \E degree \in ClickDegrees : OnNodeClick(degree)

DoKeyChange == \E letter \in KeyLetters : KeyChange(letter)

NextMic ==
  DoAnimate \/ DoOnPitch \/ DoNodeClick \/ DoKeyChange \/ MicOn \/ MicOff

SpecMic == Init /\ [][NextMic]_vars

(***************************************************************************)
(* audio.ts: the detection tick (detectPitch) with the callback the main   *)
(* module gave it, chord mode, and the two loads started by init           *)
(***************************************************************************)
\* slip: the comparison turned round
IsSilentInverted(rms) == rms >= 5

\* rms < 0.005
IsSilent(rms) == rms < 5

\* clarity > 0.8 && pitch > 60 && pitch < 1000; 60 Hz and 1000 Hz lie 2549
\* cents below and 2321 cents above middle C
AcceptPitch(pitch, clarity) ==
  clarity > 80 /\ pitch > -2549 /\ pitch < 2321

RunAfter(r, match) ==
  IF match.name = r.match THEN [r EXCEPT !.count = @ + 1]
  ELSE [match |-> match.name, count |-> 1,
        fresh |-> (currentChord = nullName /\ candidateChord = nullName)]

\* detectWithModel from the hysteresis on, given the degrees over the
\* threshold and their match
ModelFrame(detected, match) ==
  LET h == HysteresisWithModel(Hysteresis, match)
  IN [h |-> h, counts |-> degreeFrameCounts, degrees |-> Ascending(detected),
      chordName |-> h.currentChord, chordQuality |-> h.currentChordQuality,
      classified |-> TRUE, match |-> match, strategy |-> "model"]

detectWithModel(detected) ==
  ModelFrame(detected, matchDegreePattern(detected))

\* slip: candidateChord left on the chord that has just been established
TemplatesFrameKeepingCandidate(degreeScores, match) ==
  LET g == HysteresisWithTemplates(Hysteresis, match)
      h == IF g.currentChord # nullName /\ g.currentChord # currentChord
           THEN [g EXCEPT !.candidateChord = g.currentChord]
           ELSE g
      smoothed == SmoothedCounts(degreeFrameCounts, degreeScores)
  IN [h |-> h, counts |-> smoothed,
      degrees |-> SmoothedDegrees(smoothed, degreeScores),
      chordName |-> h.currentChord, chordQuality |-> h.currentChordQuality,
      classified |-> TRUE, match |-> match, strategy |-> "templates"]

\* detectWithTemplates from the hysteresis on, given the degree scores and
\* their match
TemplatesFrame(degreeScores, match) ==
  LET h == HysteresisWithTemplates(Hysteresis, match)
      smoothed == SmoothedCounts(degreeFrameCounts, degreeScores)
  IN [h |-> h, counts |-> smoothed,
      degrees |-> SmoothedDegrees(smoothed, degreeScores),
      chordName |-> h.currentChord, chordQuality |-> h.currentChordQuality,
      classified |-> TRUE, match |-> match, strategy |-> "templates"]

detectWithTemplates(hpcp) ==
  LET degreeScores == DegreeScores(hpcp, key)
  IN TemplatesFrame(degreeScores,
                    matchChordTemplate(degreeScores, currentChord))

\* no classification: the hysteresis state and the counters as they are,
\* and { degrees: [], chordName: null, chordQuality: null }
Unclassified ==
  [h |-> Hysteresis, counts |-> degreeFrameCounts, degrees |-> <<>>,
   chordName |-> nullName, chordQuality |-> nullName,
   classified |-> FALSE, match |-> NoMatch, strategy |-> "none"]

\* slip: the trained model asked whether or not it is loaded
detectChordWithNameModelFirst(sound, detected) ==
  IF ~essentiaReady THEN Unclassified ELSE detectWithModel(detected)

\* detectChordWithName: nothing without Essentia, the trained model when it
\* is loaded, the templates otherwise
detectChordWithName(sound, detected) ==
  IF ~essentiaReady THEN Unclassified
  ELSE IF modelReady THEN detectWithModel(detected)
       ELSE detectWithTemplates(Hpcp(sound))

\* what the chord branch of a tick comes to: the classification of a buffer
\* over the noise floor in chord mode, nothing otherwise
TickResult(rms, sound, detected) ==
  IF ~IsSilent(rms) /\ chordMode THEN detectChordWithName(sound, detected)
  ELSE Unclassified

\* detectPitch past its guard: the analysis of a buffer of level rms, in
\* which the estimator would find `pitch` with `clarity`, and whose chord
\* branch comes to r; the callback stores hz in currentPitchHz
Heard(rms, pitch, clarity, r) ==
  LET silent == IsSilent(rms)
      chord == ~silent /\ chordMode
      single == ~silent /\ ~chordMode
      hz == IF single /\ AcceptPitch(pitch, clarity) THEN Hz(pitch) ELSE nullHz
  IN /\ currentChord' = r.h.currentChord
     /\ currentChordQuality' = r.h.currentChordQuality
     /\ currentChordFrames' = r.h.currentChordFrames
     /\ candidateChord' = r.h.candidateChord
     /\ candidateFrames' = r.h.candidateFrames
     /\ degreeFrameCounts' = r.counts
     /\ tick' = [rms |-> rms, ticked |-> TRUE, ranPitch |-> single,
                 ranChord |-> chord, hz |-> hz, degrees |-> r.degrees,
                 chordName |-> r.chordName,
                 chordQuality |-> r.chordQuality,
                 strategy |-> r.strategy]
     /\ currentPitchHz' = hz

\* the analysis with the chroma analysis `sound` and the trained model
\* `detected`, counted
Analyse(rms, pitch, clarity, sound, detected) ==
  \E r \in {TickResult(rms, sound, detected)} :
    /\ Heard(rms, pitch, clarity, r)
    /\ run' = IF r.classified THEN RunAfter(run, r.match) ELSE run
    /\ ticks' = ticks + 1

\* a tick of the detection loop while the microphone is followed
DetectPitch(rms, pitch, clarity, sound, detected) ==
  /\ micActive
  /\ ticks < MaxTicks
  /\ Analyse(rms, pitch, clarity, sound, detected)
  /\ UNCHANGED <<engineVars, key, events, micActive, dwellDegree,
                 dwellStartTime, now, lastTime, hold, frames, probe,
                 captureVars, chordMode, essentiaReady, modelReady,
                 chordModelLoad>>

\* keydown of p: setChordMode(!getChordMode()), which resets the classifier
ToggleChordMode ==
  /\ events < MaxEvents
  /\ chordMode' = ~chordMode
  /\ degreeFrameCounts' = [d \in Degrees |-> 0]
  /\ currentChord' = nullName
  /\ currentChordQuality' = nullName
  /\ currentChordFrames' = 0
  /\ candidateChord' = nullName
  /\ candidateFrames' = 0
  /\ run' = NoRun
  /\ events' = events + 1
  /\ UNCHANGED <<engineVars, key, micActive, currentPitchHz, dwellDegree,
                 dwellStartTime, now, lastTime, hold, frames, probe, captureVars,
                 essentiaReady, modelReady, chordModelLoad, tick, ticks>>

\* initEssentia has succeeded
InitEssentia ==
  /\ ~essentiaReady
  /\ essentiaReady' = TRUE
  /\ UNCHANGED <<engineVars, micVars, probe, captureVars, chordMode, modelReady,
                 chordModelLoad,
                 currentChord, currentChordQuality, currentChordFrames,
                 candidateChord, candidateFrames, degreeFrameCounts, tick, run,
                 ticks>>

\* loadChordModel, called by init, has succeeded: chordModel is set and
\* modelReady = true
LoadChordModel ==
  /\ chordModelLoad = "pending"
  /\ chordModelLoad' = "loaded"
  /\ modelReady' = TRUE
  /\ UNCHANGED <<engineVars, micVars, probe, captureVars, chordMode, essentiaReady,
                 currentChord, currentChordQuality, currentChordFrames,
                 candidateChord, candidateFrames, degreeFrameCounts, tick, run,
                 ticks>>

\* loadChordModel has failed: the catch returns false
LoadChordModelFails ==
  /\ chordModelLoad = "pending"
  /\ chordModelLoad' = "failed"
  /\ UNCHANGED <<engineVars, micVars, probe, captureVars, chordMode, essentiaReady,
                 modelReady, currentChord, currentChordQuality,
                 currentChordFrames, candidateChord, candidateFrames,
                 degreeFrameCounts, tick, run, ticks>>

\* the buffers of a tick, told apart by what the tick reads of them: the
\* level alone when it is under the noise floor; otherwise the trained
\* model's output or the chroma vector in chord mode, the estimator's answer
\* in pitch mode
TickInputs ==
  LET quiet == [rms |-> 4, pitch |-> 0, clarity |-> 0, sound |-> {},
                detected |-> {}]
      loud == [quiet EXCEPT !.rms = 5]
  IN {quiet} \cup
     (IF chordMode
      THEN IF essentiaReady /\ modelReady
           THEN {[loud EXCEPT !.detected = d] : d \in DetectedSets}
           ELSE {[loud EXCEPT !.sound = snd] : snd \in Sounds}
      ELSE {[loud EXCEPT !.pitch = pc[1], !.clarity = pc[2]] :
              pc \in EstimatedPitches \X Clarities})

DoDetectPitch ==
  \E in \in TickInputs :
    DetectPitch(in.rms, in.pitch, in.clarity, in.sound, in.detected)

NextChord ==
  \/ DoDetectPitch
  \/ ToggleChordMode
  \/ MicOn
  \/ InitEssentia
  \/ LoadChordModel
  \/ LoadChordModelFails

SpecChord == Init /\ [][NextChord]_vars

(***************************************************************************)
(* Animation frames and detection ticks side by side, with chord mode      *)
(***************************************************************************)
DoDetectPitchEarly == ticks < MaxModeTicks /\ DoDetectPitch

NextChordMode ==
  \/ DoAnimate
  \/ DoDetectPitchEarly
  \/ ToggleChordMode
  \/ MicOn
  \/ DoNodeClick
  \/ InitEssentia

SpecChordMode == Init /\ [][NextChordMode]_vars

(***************************************************************************)
(* Detection ticks that never end: the ticks that may hear anything are    *)
(* counted (ticks, run) and bounded; the loud chord-mode frames that are   *)
(* classified and match nothing are neither, so that they can go on for    *)
(* ever.                                                                   *)
(***************************************************************************)
DoHeardTick == ticks < MaxHeard /\ DoDetectPitch

\* the buffers over the noise floor in which no pitch class rings and on
\* which the trained model reports no degree
AbsentInputs ==
  {in \in TickInputs : ~IsSilent(in.rms) /\ in.sound = {} /\ in.detected = {}}

\* a tick of the detection loop in chord mode, with Essentia ready, on a
\* buffer whose classification (by the trained model when it is loaded, by
\* the templates otherwise) finds no match
AbsentFrame(in) ==
  /\ micActive /\ chordMode /\ essentiaReady
  /\ ~IsSilent(in.rms)
  /\ \E degreeScores \in {DegreeScores(Hpcp(in.sound), key)} :
     \E match \in {IF modelReady THEN matchDegreePattern(in.detected)
                   ELSE matchChordTemplate(degreeScores, currentChord)} :
       /\ match = NoMatch
       /\ \E r \in {IF modelReady THEN ModelFrame(in.detected, match)
                     ELSE TemplatesFrame(degreeScores, match)} :
            Heard(in.rms, in.pitch, in.clarity, r)
  /\ UNCHANGED <<engineVars, key, events, micActive, dwellDegree,
                 dwellStartTime, now, lastTime, hold, frames, probe,
                 captureVars, chordMode, essentiaReady, modelReady,
                 chordModelLoad, run, ticks>>

DoAbsentFrame == \E in \in AbsentInputs : AbsentFrame(in)

NextAbsent ==
  \/ DoHeardTick
  \/ DoAbsentFrame
  \/ ToggleChordMode
  \/ MicOn
  \/ InitEssentia
  \/ LoadChordModel
  \/ LoadChordModelFails

\* every tick requests the next one (requestAnimationFrame(detectPitch)), so
\* while nothing is played the frames that match nothing keep coming
SpecAbsent == Init /\ [][NextAbsent]_vars /\ WF_vars(DoAbsentFrame)

(***************************************************************************)
(* audio.ts and the keydown handler: the capture, step by step.  A press   *)
(* of m with the microphone off calls startMicrophoneTracking, which waits *)
(* for getUserMedia; micActive is set when the call has returned true.     *)
(* The detection loop is the chain of detectPitch calls queued with        *)
(* requestAnimationFrame.  Streams and queued calls are numbered in the    *)
(* order they are handed out; null stands for no stream and no id.         *)
(***************************************************************************)
\* keydown of m with micActive false, up to the await of getUserMedia
StartRequest ==
  /\ events < MaxPresses
  /\ ~micActive
  /\ pending' = pending + 1
  /\ stopped' = FALSE
  /\ events' = events + 1
  /\ UNCHANGED <<engineVars, key, micActive, currentPitchHz, dwellDegree,
                 dwellStartTime, now, lastTime, hold, frames, probe, chordVars,
                 micStream, analyser, pitchCallback, pitchDetector,
                 animationId, scheduled, requested, acquired, live>>

\* detectPitch: past the guard, the analysis and the next call queued
DetectAndQueue(in) ==
  /\ Analyse(in.rms, in.pitch, in.clarity, in.sound, in.detected)
  /\ requested' = requested + 1
  /\ animationId' = requested + 1

\* getUserMedia answers a waiting call with a stream: the rest of
\* startMicrophoneTracking, its first detectPitch() included, and the
\* handler's `if (success) micActive = true`
GetUserMediaResolves ==
  /\ pending > 0
  /\ pending' = pending - 1
  /\ acquired' = acquired + 1
  /\ live' = live \cup {acquired + 1}
  /\ micStream' = acquired + 1
  /\ analyser' = acquired + 1
  /\ pitchDetector' = TRUE
  /\ pitchCallback' = TRUE
  /\ \E in \in TickInputs : DetectAndQueue(in)
  /\ scheduled' = scheduled \cup {requested + 1}
  /\ micActive' = TRUE
  /\ UNCHANGED <<engineVars, key, events, dwellDegree, dwellStartTime, now,
                 lastTime, hold, frames, probe, chordMode, essentiaReady,
                 modelReady, chordModelLoad, stopped>>

\* getUserMedia refuses: the catch returns false and the handler does nothing
GetUserMediaRejects ==
  /\ pending > 0
  /\ pending' = pending - 1
  /\ UNCHANGED <<engineVars, micVars, probe, chordVars, micStream, analyser,
                 pitchCallback, pitchDetector, animationId, scheduled,
                 requested, acquired, live, stopped>>

\* if (!analyser || !pitchCallback || !pitchDetector) return
DetectGuard == analyser # null /\ pitchCallback /\ pitchDetector

\* the browser runs a queued detectPitch
QueuedDetectPitch(id) ==
  /\ id \in scheduled
  /\ IF DetectGuard
     THEN /\ ticks < MaxCaptureTicks
          /\ \E in \in TickInputs : DetectAndQueue(in)
          /\ scheduled' = (scheduled \ {id}) \cup {requested + 1}
     ELSE /\ scheduled' = scheduled \ {id}
          /\ UNCHANGED <<currentPitchHz, currentChord, currentChordQuality,
                         currentChordFrames, candidateChord, candidateFrames,
                         degreeFrameCounts, tick, run, ticks, requested,
                         animationId>>
  /\ UNCHANGED <<engineVars, key, events, micActive, dwellDegree,
                 dwellStartTime, now, lastTime, hold, frames, probe, chordMode,
                 essentiaReady, modelReady, chordModelLoad, micStream, analyser,
                 pitchCallback, pitchDetector, pending,
                 acquired, live, stopped>>

\* keydown of m with micActive true: stopMicrophoneTracking, then
\* micActive = false and currentPitchHz = null
StopRequest ==
  /\ events < MaxPresses
  /\ micActive
  /\ scheduled' = IF animationId # null THEN scheduled \ {animationId}
                  ELSE scheduled
  /\ animationId' = null
  /\ live' = IF micStream # null THEN live \ {micStream} ELSE live
  /\ micStream' = null
  /\ analyser' = null
  /\ pitchCallback' = FALSE
  /\ pitchDetector' = FALSE
  /\ micActive' = FALSE
  /\ currentPitchHz' = nullHz
  /\ stopped' = TRUE
  /\ events' = events + 1
  /\ UNCHANGED <<engineVars, key, dwellDegree, dwellStartTime, now, lastTime,
                 hold, frames, probe, chordVars, requested, pending, acquired>>

DoQueuedDetectPitch == \E id \in scheduled : QueuedDetectPitch(id)

NextCapture ==
  \/ StartRequest
  \/ GetUserMediaResolves
  \/ GetUserMediaRejects
  \/ DoQueuedDetectPitch
  \/ StopRequest

SpecCapture == Init /\ [][NextCapture]_vars

(***************************************************************************)
(* The animation frame when the callback is handed any number its type     *)
(* (number | null) admits                                                  *)
(***************************************************************************)
DoOnPitchAny == \E hz \in {Hz(0), nullHz} \cup InvalidHz : OnPitch(hz)

NextFrame == DoAnimate \/ DoOnPitchAny \/ MicOn

SpecFrame == Init /\ [][NextFrame]_vars

(***************************************************************************)
(* The pitch mapper called on its own                                      *)
(***************************************************************************)
\* a call hzToPosition(hz) about to be made with config.key = k
InitMap ==
  /\ InitEngine /\ InitMic /\ InitClassifier /\ InitCapture
  /\ \E hz \in {Hz(c) : c \in MapCents} \cup InvalidHz : \E k \in Keys :
       probe = [NoProbe EXCEPT !.hz = hz, !.key = k]

\* the call returns
Map ==
  /\ ~probe.done
  /\ probe' = [probe EXCEPT !.done = TRUE,
                            !.result = hzToPosition(probe.hz, probe.key)]
  /\ UNCHANGED <<engineVars, micVars, captureVars, chordVars>>

NextMap == Map

SpecMap == InitMap /\ [][NextMap]_vars

(***************************************************************************)
(* The degree-set matcher of the trained-model strategy, on every set of   *)
(* degrees the model's outputs can give                                    *)
(***************************************************************************)
\* detectedDegrees about to be matched
InitPattern ==
  /\ InitEngine /\ InitMic /\ InitClassifier /\ InitCapture
  /\ \E detected \in SUBSET Degrees :
       probe = [detected |-> detected, done |-> FALSE, result |-> NoMatch]

\* the call returns
MatchPattern ==
  /\ ~probe.done
  /\ probe' = [probe EXCEPT !.done = TRUE,
                            !.result = matchDegreePattern(probe.detected)]
  /\ UNCHANGED <<engineVars, micVars, captureVars, chordVars>>

NextPattern == MatchPattern

SpecPattern == InitPattern /\ [][NextPattern]_vars

(***************************************************************************)
(* The bins the two chord strategies read, in every key the keydown        *)
(* handler can select                                                      *)
(***************************************************************************)
\* the keys of the cycles: what config.key can be
SelectableKeys == UNION {Range(keyCycles[l]) : l \in DOMAIN keyCycles}

\* a chord-mode buffer about to be analysed with config.key = k
InitBins ==
  /\ InitEngine /\ InitMic /\ InitClassifier /\ InitCapture
  /\ \E k \in SelectableKeys : \E snd \in BinSounds :
       probe = [key |-> k, sound |-> snd, done |-> FALSE,
                degreeScores |-> <<>>, input |-> <<>>]

\* the degree scores detectWithTemplates builds and the vector
\* detectWithModel runs the model on
ReadBins ==
  /\ ~probe.done
  /\ probe' = [probe EXCEPT
                 !.done = TRUE,
                 !.degreeScores = DegreeScores(Hpcp(probe.sound), probe.key),
                 !.input = ModelInput(Hpcp(probe.sound))]
  /\ UNCHANGED <<engineVars, micVars, captureVars, chordVars>>

NextBins == ReadBins

SpecBins == InitBins /\ [][NextBins]_vars

(***************************************************************************)
(* Claims about the tension engine, checked under Spec                     *)
(***************************************************************************)
T(d) == TensionOf(state.tensions, d)

IsPlayStep(d) ==
  call'.op = "playNote" /\ call'.degree = d /\ steps' = steps + 1

IsDecayStep == call'.op = "decay" /\ steps' = steps + 1

\* C1: after any sequence of playNote(d), d in 1..7, and decay(dt), dt >= 0,
\* every stored tension is within [0,1] and getTotalTension is within [0,1].
C1_ClampInvariant ==
  /\ \A i \in 1..Len(state.tensions) :
       state.tensions[i].amount >= 0 /\ state.tensions[i].amount <= One
  /\ getTotalTension(state) >= 0
  /\ getTotalTension(state) <= One

\* a degree saturated at 1.0 while the sum of tensions exceeds 3.0
C1_Witness ==
  /\ \E i \in 1..Len(state.tensions) : state.tensions[i].amount = One
  /\ SumAmounts(state.tensions) > 3 * One
  /\ getTotalTension(state) = One

\* 1 - stability of the unstable degrees, as the claim gives them
C2_Instability ==
  [d \in {2, 4, 6, 7} |->
     CASE d = 7 -> 9000 [] d = 4 -> 8000 [] d = 2 -> 7000 [] d = 6 -> 6000]

\* C2: k consecutive activations of one unstable degree, starting free of
\* tension, with no decay or resolution between, leave it at
\* min(1, k * instability), never above 1.0; degree 7 holds 0.9 after one
\* playNote and exactly 1.0 after the second and every later one.
C2_Saturation ==
  streak.count > 0 /\ streak.degree \in DOMAIN C2_Instability =>
    /\ T(streak.degree) =
         Min(One, streak.count * C2_Instability[streak.degree])
    /\ T(streak.degree) <= One
    /\ (streak.degree = 7 /\ streak.count = 1 => T(7) = 9000)
    /\ (streak.degree = 7 /\ streak.count >= 2 => T(7) = One)

C2_Witness == streak.degree = 7 /\ streak.count = 3 /\ T(7) = One

\* C3: whenever degree 7 carries tension t > 0 and degree 1 is activated, the
\* call reports a resolution event with from = 7, to = 1 (and amount = t),
\* and afterwards degree 7 carries no tension.  The Resolution the code
\* returns has the fields from and to only, so the amount is not stated here.
C3_ResolutionReported ==
  [][IsPlayStep(1) /\ T(7) > 0 =>
       /\ call'.result.from = 7
       /\ call'.result.to = 1
       /\ TensionOf(state'.tensions, 7) = 0]_vars

\* C4: activating a resolution target releases only tension * pullStrength:
\* tension(2) = t and playNote(1) (pull 0.5) leave tension(2) = t * 0.5;
\* tension(4) = t and playNote(3) (pull 0.8) leave tension(4) = t * 0.2.
C4_PartialRelease ==
  [][/\ (IsPlayStep(1) /\ T(2) > 0 =>
           2 * TensionOf(state'.tensions, 2) = T(2))
     /\ (IsPlayStep(3) /\ T(4) > 0 =>
           5 * TensionOf(state'.tensions, 4) = T(4))]_vars

\* the resolution events a call's result carries
ReportedEvents(result) == IF result = NoResolution THEN {} ELSE {result}

\* C5: when several tense degrees resolve to the activated degree, the call
\* reports one resolution event for each of them (7->1 and 6->1 together).
C5_EveryReleaseReported ==
  [][\A d \in Degrees : IsPlayStep(d) =>
       \A t \in Degrees :
         (T(t) > 0 /\ Includes(resolvesTo[t], d)) =>
           [from |-> t, to |-> d] \in ReportedEvents(call'.result)]_vars

\* C6: activating any degree of stability below 1 (2..7, the triad degrees 3
\* and 5 included) adds 1 - stability to its own tension, clamped to 1, after
\* resolution; playNote(3) with 2 tense releases tension from 2 and leaves
\* degree 3 with positive tension.
C6_EveryUnstableDegreeGainsTension ==
  [][/\ \A d \in Degrees : (IsPlayStep(d) /\ homeness[d] < One) =>
          TensionOf(state'.tensions, d) = Min(One, T(d) + One - homeness[d])
     /\ (IsPlayStep(3) /\ T(2) > 0 =>
           /\ TensionOf(state'.tensions, 2) < T(2)
           /\ TensionOf(state'.tensions, 3) > 0)]_vars

\* C7: in every state reachable by playNote/decay calls, decay(state, 0)
\* changes nothing: no value changes, no entry is removed, none is added.
C7_DecayZeroIsIdentity == decay(state, 0) = state

\* decay(state, 0) has just run on a state that holds tension
C7_Witness ==
  call.op = "decay" /\ call.deltaTime = 0 /\ state.tensions # <<>>

\* what the tension held after the latest playNote has become
C8_Remaining(d) == TensionOf(since.tensions, d) - since.decayed

\* C8: for positive deltaTime no decay call increases any degree's tension,
\* tension never becomes negative, and once the accumulated decay
\* (0.15 * deltaTime per call) reaches a degree's tension its entry is removed
\* from the map and reads as 0.
C8_MonotonicDecay ==
  /\ [](\A d \in Degrees :
          /\ T(d) >= 0
          /\ (C8_Remaining(d) <= 0 => ~MapHas(state.tensions, d))
          /\ (MapHas(state.tensions, d) => T(d) = C8_Remaining(d)))
  /\ [][IsDecayStep /\ call'.deltaTime > 0 =>
          \A d \in Degrees :
            /\ TensionOf(state'.tensions, d) <= T(d)
            /\ TensionOf(state'.tensions, d) >= 0]_vars

\* repeated decay has used up a tension that a playNote had stored
C8_Witness ==
  /\ call.op = "decay"
  /\ call.deltaTime > 0
  /\ since.decayed > DecayAmount(call.deltaTime)
  /\ \E d \in Degrees :
       /\ TensionOf(since.tensions, d) > 0
       /\ C8_Remaining(d) <= 0
       /\ ~MapHas(state.tensions, d)
  /\ \E d \in Degrees : MapHas(state.tensions, d) /\ T(d) < One

(***************************************************************************)
(* Claims about the dwell gate, checked under SpecMic                      *)
(***************************************************************************)
\* C9: starting with no held dwell candidate, while every frame maps to the
\* same in-key degree and less than DWELL_THRESHOLD_MS has elapsed since the
\* first such frame, the microphone path has made no playNote call.
C9_NoActivationBeforeThreshold ==
  (/\ hold.degree # null
   /\ hold.clean
   /\ now - hold.start < DWELL_THRESHOLD_MS) => hold.fires = 0

\* a hold begun without candidate, several frames old, short of the threshold
C9_Witness ==
  /\ hold.degree # null
  /\ hold.clean
  /\ now - hold.start >= 100
  /\ now - hold.start < DWELL_THRESHOLD_MS
  /\ dwellDegree = hold.degree
  /\ hold.fires = 0

\* C10: one uninterrupted hold of the same in-key degree produces exactly one
\* playNote call however long it lasts beyond the dwell threshold: after the
\* dwell activation the degree cannot fire again until a frame has mapped to
\* a different degree or to none.
C10_OneActivationPerHold ==
  hold.degree # null =>
    /\ hold.fires <= 1
    /\ (hold.clean /\ now - hold.start >= DWELL_THRESHOLD_MS =>
          hold.fires = 1)

\* C11: every animation frame on which no degree is mapped, whether the pitch
\* is chromatic or there is no pitch at all (currentPitchHz = null), clears
\* the dwell candidate, so dwell time never accumulates across a gap: the
\* first frame of a degree's return after the gap does not fire.
C11_GapClearsCandidate ==
  [][frames' = frames + 1 =>
       /\ (micActive /\ FrameDegree = null => dwellDegree' = null)
       /\ (hold'.degree # null /\ hold'.start = now' => hold'.fires = 0)]_vars

(***************************************************************************)
(* Claims about the pitch mapper, checked under SpecMap                    *)
(***************************************************************************)
\* the probed pitch folded into one octave above the root of the probed key,
\* in cents
Folded == (probe.hz.cents - rootFrequencies[probe.key]) % 1200

\* the major scale: semitone offsets (in cents) and their degrees
ScaleDegreeAt ==
  [c \in {0, 200, 400, 500, 700, 900, 1100} |->
     CASE c = 0 -> 1 [] c = 200 -> 2 [] c = 400 -> 3 [] c = 500 -> 4
       [] c = 700 -> 5 [] c = 900 -> 6 [] c = 1100 -> 7]

\* C12: a frequency lying exactly on a scale degree of the configured key
\* (root * 2^(s/12), s in {0,2,4,5,7,9,11}, any octave) maps to inKey = true
\* with that degree and that degree's node position; 261.63 Hz in key C maps
\* to inKey = true, degree = 1.
C12_OnScaleSnaps ==
  /\ (probe.done /\ probe.hz.kind = "positive"
        /\ Folded \in DOMAIN ScaleDegreeAt =>
        /\ probe.result.inKey
        /\ probe.result.degree = ScaleDegreeAt[Folded]
        /\ probe.result.pos = <<"node", ScaleDegreeAt[Folded]>>)
  /\ (probe.done /\ probe.hz = Hz(0) /\ probe.key = "C" =>
        probe.result.inKey /\ probe.result.degree = 1)

\* the leading tone of B flat, an octave below: A, 300 cents under middle C
C12_Witness ==
  /\ probe.done
  /\ probe.hz = Hz(-300)
  /\ probe.key = "Bb"
  /\ probe.result.inKey
  /\ probe.result.degree = 7

\* the scale semitones bracketing the folded pitch: the last one at or below
\* it, and the first one above it (the tonic of the next octave after 7)
ScaleBelow == CHOOSE c \in DOMAIN ScaleDegreeAt :
                c <= Folded /\ \A e \in DOMAIN ScaleDegreeAt : e <= Folded => e <= c

ScaleAbove ==
  IF \E c \in DOMAIN ScaleDegreeAt : c > Folded
  THEN CHOOSE c \in DOMAIN ScaleDegreeAt :
         c > Folded /\ \A e \in DOMAIN ScaleDegreeAt : e > Folded => c <= e
  ELSE 1200

\* C13: a pitch at least 0.25 semitone away from both of its bracketing scale
\* degrees maps to inKey = false, degree = null and adjacentDegrees =
\* [lower, upper], the consecutive scale degrees below and above it ([7,1]
\* across the octave wrap, gap 1), with t = distance-to-lower / gap in [0,1);
\* one semitone above the root gives [1,2] and t = 0.5.
C13_ChromaticBetween ==
  probe.done /\ probe.hz.kind = "positive" =>
    /\ (Folded - ScaleBelow >= 25 /\ ScaleAbove - Folded >= 25 =>
          /\ ~probe.result.inKey
          /\ probe.result.degree = null
          /\ probe.result.adjacentDegrees =
               <<ScaleDegreeAt[ScaleBelow], ScaleDegreeAt[ScaleAbove % 1200]>>
          /\ probe.result.pos =
               <<"between", ScaleDegreeAt[ScaleBelow],
                 ScaleDegreeAt[ScaleAbove % 1200],
                 Folded - ScaleBelow, ScaleAbove - ScaleBelow>>
          /\ Folded - ScaleBelow >= 0
          /\ Folded - ScaleBelow < ScaleAbove - ScaleBelow
          /\ (ScaleBelow = 1100 => ScaleAbove - ScaleBelow = 100))
    /\ (Folded = 100 =>
          /\ probe.result.adjacentDegrees = <<1, 2>>
          /\ probe.result.pos = <<"between", 1, 2, 100, 200>>)

\* distance around the octave between the folded pitch and a scale semitone
AroundOctave(c) == Min((Folded - c) % 1200, (c - Folded) % 1200)

\* C14: for every valid frequency the mapper returns inKey = true with degree
\* d if and only if the octave-folded pitch is less than 0.25 semitone from
\* d's semitone offset, measured around the octave; no pitch 0.25 semitone or
\* more from every scale degree (11.6 semitones above the root, say) is
\* classified as in-key.
C14_InKeyIffWithinQuarter ==
  probe.done /\ probe.hz.kind = "positive" =>
    /\ \A c \in DOMAIN ScaleDegreeAt :
         (probe.result.inKey /\ probe.result.degree = ScaleDegreeAt[c])
           <=> AroundOctave(c) < 25
    /\ ((\A c \in DOMAIN ScaleDegreeAt : AroundOctave(c) >= 25) =>
          ~probe.result.inKey)

\* the two shapes of a result
OnDegreeShape(r) ==
  r.inKey /\ r.degree \in Degrees /\ r.adjacentDegrees = <<>>

BetweenShape(r) ==
  ~r.inKey /\ r.degree = null /\ Len(r.adjacentDegrees) = 2

\* C15 as stated: every result of the mapper, for every input including
\* invalid ones, has one of the two shapes.
C15_TwoShapesForEveryInput ==
  probe.done => OnDegreeShape(probe.result) \/ BetweenShape(probe.result)

\* C15, amended: every result for a valid (finite, positive) frequency has
\* one of the two shapes; for an invalid input the result is the neutral one,
\* inKey = true with degree = null and empty adjacentDegrees.
C15_TwoShapesForValidInput ==
  probe.done =>
    /\ (probe.hz.kind = "positive" =>
          OnDegreeShape(probe.result) \/ BetweenShape(probe.result))
    /\ (probe.hz \in InvalidHz =>
          /\ probe.result.inKey
          /\ probe.result.degree = null
          /\ probe.result.adjacentDegrees = <<>>)

\* a result between the leading tone and the tonic, and one for NaN
C15_Witness ==
  /\ probe.done
  /\ \/ probe.result.adjacentDegrees = <<7, 1>> /\ BetweenShape(probe.result)
     \/ probe.hz.kind = "nan" /\ probe.result = NeutralPosition

(***************************************************************************)
(* Claims about frames with an invalid pitch, checked under SpecFrame      *)
(***************************************************************************)
\* C16: a non-finite, zero or negative frequency is never reported as an
\* error: the mapper returns the neutral centre position (x = 50, y = 50)
\* with degree = null, and such a frame never starts or advances a dwell
\* candidate and never causes a playNote call.
C16_InvalidPitchIsNeutral ==
  /\ [](currentPitchHz \in InvalidHz =>
          /\ hzToPosition(currentPitchHz, key).pos = <<"xy", 50, 50>>
          /\ hzToPosition(currentPitchHz, key).degree = null)
  /\ [][frames' = frames + 1 /\ micActive /\ currentPitchHz \in InvalidHz =>
          /\ call'.op = "decay"
          /\ state' = decay(state, call'.deltaTime)
          /\ dwellDegree' = null
          /\ dwellStartTime' = dwellStartTime
          /\ hold' = NoHold]_vars

\* the second frame, on an invalid pitch, has dropped the candidate that the
\* first frame had started
C16_Witness ==
  /\ micActive
  /\ frames = 2
  /\ currentPitchHz \in InvalidHz
  /\ dwellStartTime > 0
  /\ dwellDegree = null
  /\ hold = NoHold
  /\ call.op = "decay"

(***************************************************************************)
(* Claims about the detection tick and the chord classifier, checked       *)
(* under SpecChord                                                         *)
(***************************************************************************)
\* a tick on which the classifier matched its input against the chords
IsClassifiedTick == ticks' = ticks + 1 /\ tick'.ranChord /\ essentiaReady

\* C17: currentChord changes from an established label A to a different
\* non-null label B only on a frame where B has been the classifier's match
\* on each of the FRAMES_TO_ESTABLISH most recent classified frames in a row;
\* matching frames separated by other frames do not add up.
C17_SwitchNeedsConsecutiveFrames ==
  [][(/\ IsClassifiedTick
      /\ currentChord # nullName
      /\ currentChord' # nullName
      /\ currentChord' # currentChord) =>
        /\ run'.match = currentChord'
        /\ run'.count >= FRAMES_TO_ESTABLISH]_vars

\* C18: an established chord clears only after sustained absence: a single
\* classified frame with no match leaves currentChord unchanged; it becomes
\* null only after at least two consecutive no-match frames.
C18_ClearNeedsTwoAbsentFrames ==
  [][(IsClassifiedTick /\ currentChord # nullName /\ run'.match = nullName) =>
        /\ (run'.count = 1 => currentChord' = currentChord)
        /\ (currentChord' = nullName => run'.count >= 2)]_vars

\* C19: on every detection tick whose signal RMS is below the noise floor the
\* callback receives no pitch, an empty degree list and no chord label or
\* quality, neither the pitch estimator nor the chord classifier is run, and
\* the chord hysteresis state and the per-degree smoothing counters are left
\* unchanged.
C19_SilentTickSkipsClassification ==
  /\ [](tick.ticked /\ tick.rms < 5 =>
          /\ tick.hz = nullHz
          /\ tick.degrees = <<>>
          /\ tick.chordName = nullName
          /\ tick.chordQuality = nullName
          /\ ~tick.ranPitch
          /\ ~tick.ranChord)
  /\ [][ticks' = ticks + 1 /\ tick'.rms < 5 =>
          /\ currentPitchHz' = nullHz
          /\ UNCHANGED <<currentChord, currentChordQuality, currentChordFrames,
                         candidateChord, candidateFrames, degreeFrameCounts,
                         run>>]_vars

\* a silent tick in chord mode with a chord established, a candidate counted
\* and degrees lit
C19_Witness ==
  /\ tick.ticked
  /\ tick.rms < 5
  /\ chordMode
  /\ essentiaReady
  /\ currentChord # nullName
  /\ candidateFrames > 0
  /\ \E d \in Degrees : degreeFrameCounts[d] >= FRAMES_TO_ACTIVATE

(***************************************************************************)
(* Claims about chord mode and the tension engine, checked under           *)
(* SpecChordMode                                                           *)
(***************************************************************************)
\* C20: while chord mode is on, no microphone frame ever calls playNote:
\* every chord-mode callback carries hz = null, so the tension map, lastNote
\* and direction change only through decay, node clicks and key changes.
C20_NoPlayNoteInChordMode ==
  /\ [](tick.ranChord => tick.hz = nullHz)
  /\ [][chordMode /\ frames' = frames + 1 =>
          /\ call'.op = "decay"
          /\ state' = decay(state, call'.deltaTime)]_vars

(***************************************************************************)
(* Claims about key changes and the two ways to activate, checked under    *)
(* SpecMic                                                                 *)
(***************************************************************************)
\* C21: every key-change event replaces the engine state with a fresh one:
\* immediately afterwards the tension map is empty, total tension is 0,
\* lastNote is null and direction is 'none', whatever the state was before.
C21_KeyChangeResetsState ==
  [][key' # key =>
       /\ state'.tensions = <<>>
       /\ getTotalTension(state') = 0
       /\ state'.lastNote = null
       /\ state'.direction = "none"
       /\ \A d \in Degrees : TensionOf(state'.tensions, d) = 0]_vars

\* the key has just changed from C to D within a hold of D (degree 2 of C)
\* in which the dwell had fired, so the old state held tension on 2
C21_Witness ==
  /\ key = "D"
  /\ call = NoCall
  /\ hold.degree = 2
  /\ hold.fires > 0
  /\ state = [lastNote |-> null, direction |-> "none", tensions |-> <<>>]

\* the engine state a step's playNote call was applied to: the state as the
\* frame's decay left it on the microphone path, the state itself on a click
C22_Before ==
  IF frames' = frames + 1
  THEN decay(state, IF lastTime = 0 THEN 0 ELSE now' - lastTime)
  ELSE state

\* a step on which playNote is called: a frame whose dwell fires, or a click
\* (the event that leaves the key and the microphone switch as they are)
C22_IsActivation ==
  /\ call'.op = "playNote"
  /\ \/ frames' = frames + 1
     \/ events' = events + 1 /\ key' = key /\ micActive' = micActive

\* C22: a dwell-confirmed activation of degree d and a click on node d,
\* applied to the same engine state, produce the same resulting engine state
\* (tensions, lastNote, direction) and the same resolution result: on either
\* path both are those of playNote(state, d).
C22_SameActivationEitherWay ==
  [][C22_IsActivation =>
       /\ state' = playNote(C22_Before, call'.degree)
       /\ call'.result = PlayResolution(C22_Before.tensions, call'.degree)
       /\ (frames' = frames + 1 =>
             call'.degree = hzToPosition(currentPitchHz, key).degree)]_vars

\* a dwell activation of degree 1 has released the tension a click on 7 had
\* stored (one click and the microphone switch are the only events)
C22_Witness ==
  /\ events = 2
  /\ call.op = "playNote"
  /\ call.degree = 1
  /\ call.result = [from |-> 7, to |-> 1]
  /\ hold.degree = 1
  /\ hold.fires = 1
  /\ state.lastNote = 1
  /\ state.direction = "toward"
  /\ state.tensions = <<>>

(***************************************************************************)
(* Claims about the capture, checked under SpecCapture                     *)
(***************************************************************************)
\* C23: after stopMicrophoneTracking() returns, under every interleaving of
\* mic-toggle key presses and pending getUserMedia completions (two start
\* requests issued before the first resolves included), no detection tick
\* remains scheduled, no further pitch callback is delivered, and every
\* capture stream that was acquired has had its tracks stopped and its
\* analyser dropped.
C23_StopHaltsCapture ==
  /\ [](stopped =>
          /\ scheduled = {}
          /\ live = {}
          /\ analyser = null)
  /\ [][ticks' = ticks + 1 => ~stopped]_vars

(***************************************************************************)
(* Claims about the classifier's optional assets, checked under SpecChord  *)
(***************************************************************************)
\* a detection tick that reaches the chord branch of detectPitch
IsChordTick == ticks' = ticks + 1 /\ tick'.ranChord

\* C24: a chord-mode tick never waits on an optional asset: it uses the
\* learned classifier only if the model load has already completed
\* successfully at that tick, uses the template strategy while the load is
\* pending or after it has failed (a failed load never sets the ready flag),
\* and returns no chord at all while the feature extractor is not ready.
C24_TickUsesWhatIsReady ==
  /\ [](modelReady <=> chordModelLoad = "loaded")
  /\ [](micActive /\ ticks < MaxTicks => ENABLED DoDetectPitch)
  /\ [][IsChordTick =>
          /\ (tick'.strategy = "model" <=>
                essentiaReady /\ chordModelLoad = "loaded")
          /\ (tick'.strategy = "templates" <=>
                essentiaReady /\ chordModelLoad \in {"pending", "failed"})
          /\ (~essentiaReady =>
                /\ tick'.strategy = "none"
                /\ tick'.chordName = nullName
                /\ tick'.chordQuality = nullName
                /\ tick'.degrees = <<>>
                /\ UNCHANGED <<currentChord, currentChordQuality,
                               currentChordFrames, candidateChord,
                               candidateFrames, degreeFrameCounts>>)]_vars

\* the template strategy has established a chord after the model load failed
C24_Witness ==
  /\ chordModelLoad = "failed"
  /\ ~modelReady
  /\ tick.ranChord
  /\ tick.strategy = "templates"
  /\ tick.chordName = "I"

(***************************************************************************)
(* Claims about degrees outside 1..7, checked under SpecAny                *)
(***************************************************************************)
\* C25: playNote(state, d) with d outside 1..7 fails fast and leaves the
\* tensions, lastNote and direction unchanged, instead of silently recording
\* d.  (playNote has no statement that throws; what is stated here is what
\* the abort would leave behind.)
C25_OutOfRangeLeavesStateAlone ==
  [][\A d \in AnyDegrees \ Degrees : IsPlayStep(d) =>
       /\ state'.tensions = state.tensions
       /\ state'.lastNote = state.lastNote
       /\ state'.direction = state.direction]_vars

(***************************************************************************)
(* Claims about the bins the chord strategies read, checked under SpecBins *)
(***************************************************************************)
\* pitch class (0 = C) of the root of a key, from the table of root
\* frequencies
RootPitchClass(k) == rootFrequencies[k] \div 100

\* C26: for every key the key-change handler can select (the 7 naturals and
\* C#, Db, Eb, F#, Gb, Ab, Bb), both chord strategies read scale degree k
\* from the pitch-class bin (root pitch class of that key + major-scale
\* offset of k) mod 12: the 12-bin vector is aligned to the configured key's
\* root and not to C or any other default.
C26_BinsAlignedToKey ==
  probe.done =>
    LET hpcp == Hpcp(probe.sound)
        root == RootPitchClass(probe.key)
    IN /\ \A d \in Degrees :
            probe.degreeScores[d] = hpcp[(root + majorScaleIntervals[d]) % 12]
       /\ \A d \in Degrees :
            probe.input[majorScaleIntervals[d]] =
              hpcp[(root + majorScaleIntervals[d]) % 12]

(***************************************************************************)
(* Further claims about the tension engine, checked under Spec             *)
(***************************************************************************)
\* three times the total tension getTotalTension returns, which is a whole
\* number of units: Math.min(1, total / 3) times 3
C27_Total3(s) == Min(3 * One, SumAmounts(s.tensions))

\* C27: activating a degree raises global tension by that degree's
\* instability, clamped to 1: with global tension g before activating degree
\* d and no resolution fired, it is min(1, g + (1 - stability(d))) afterwards,
\* e.g. 0.9 after activating degree 7 on a fresh state.
C27_GlobalTensionRisesByInstability ==
  [][\A d \in Degrees : (IsPlayStep(d) /\ call'.result = NoResolution) =>
       /\ C27_Total3(state') =
            Min(3 * One, C27_Total3(state) + 3 * (One - homeness[d]))
       /\ (d = 7 /\ state = createInitialState =>
             getTotalTension(state') = 9000)]_vars

(***************************************************************************)
(* Claims about decay in the long run, checked under SpecLive              *)
(***************************************************************************)
\* C28: if no note is played from some point on and animation frames keep
\* calling decay with positive deltaTime, then eventually the tension map is
\* empty and total tension is 0, and it stays so until the next playNote.
\* (steps counts the playNote calls.)
C28_TensionDecaysAway ==
  /\ \A n \in 0..MaxNotes :
       (steps = n /\ state.tensions # <<>>) ~>
         (steps # n \/ (state.tensions = <<>> /\ getTotalTension(state) = 0))
  /\ [][state.tensions = <<>> /\ steps' = steps =>
          state'.tensions = <<>> /\ getTotalTension(state') = 0]_vars

\* the tension of the leading tone, played last, has decayed away
C28_Witness ==
  /\ state.lastNote = 7
  /\ call.op = "decay"
  /\ call.deltaTime > 0
  /\ state.tensions = <<>>
  /\ getTotalTension(state) = 0

(***************************************************************************)
(* Further claims about the chord hysteresis, checked under SpecChord      *)
(***************************************************************************)
\* C29: from the no-chord state (currentChord and candidate both empty), a
\* label fed as the match on consecutive frames becomes currentChord exactly
\* on its 6th consecutive frame and not earlier; if a different non-current
\* label matches before that, the candidate is replaced by the new label
\* with its counter restarted at 1.
C29_EstablishedOnSixthFrame ==
  /\ [](run.fresh /\ run.match # nullName =>
          /\ (run.count < 6 =>
                /\ currentChord = nullName
                /\ candidateChord = run.match
                /\ candidateFrames = run.count)
          /\ (run.count >= 6 => currentChord = run.match))
  /\ [][(/\ IsClassifiedTick
         /\ run'.match # nullName
         /\ run'.match # candidateChord
         /\ run'.match # currentChord) =>
           candidateChord' = run'.match /\ candidateFrames' = 1]_vars

\* V has just been established by its 6th frame in a row, the first of which
\* found no chord and no candidate
C29_Witness ==
  /\ run.fresh
  /\ run.match = "V"
  /\ run.count = 6
  /\ currentChord = "V"
  /\ candidateChord = nullName

\* C30: in both chord strategies (template and learned), a classified frame
\* with no match decrements the established chord's frame counter by a
\* larger step than the candidate's counter (2 against 1), each floored at 0,
\* and currentChord and its quality become null exactly when the established
\* counter reaches 0.
C30_AbsenceDropsTwoAgainstOne ==
  [][(IsClassifiedTick /\ run'.match = nullName) =>
       /\ currentChordFrames' = Max(0, currentChordFrames - 2)
       /\ candidateFrames' = Max(0, candidateFrames - 1)
       /\ (currentChordFrames' = 0 =>
             currentChord' = nullName /\ currentChordQuality' = nullName)
       /\ (currentChordFrames' > 0 =>
             /\ currentChord' = currentChord
             /\ currentChordQuality' = currentChordQuality)]_vars

(***************************************************************************)
(* The classifier under absent frames that never end, checked under        *)
(* SpecAbsent                                                              *)
(***************************************************************************)
NoChordLeft == currentChord = nullName /\ candidateFrames = 0

\* C31: if from some point on every classified frame has no match (the
\* counted ticks and the keys pressed come to an end, the frames with no
\* match do not), then currentChord becomes null and candidateFrames becomes
\* 0, whatever the counters were, and both stay so on every further frame
\* with no match.
C31_AbsenceClearsChord ==
  /\ <>[]NoChordLeft
  /\ [][NoChordLeft /\ DoAbsentFrame => NoChordLeft']_vars

\* the trained model reported I on every counted tick, and absent frames
\* have since cleared the chord it had established
C31_Witness ==
  /\ run.match = "I"
  /\ run.count = MaxHeard
  /\ tick.ranChord
  /\ tick.strategy = "model"
  /\ tick.degrees = <<>>
  /\ currentChordFrames = 0
  /\ NoChordLeft

(***************************************************************************)
(* The smoothing counters of the template strategy, checked under          *)
(* SpecChord                                                               *)
(***************************************************************************)
\* a tick that the template strategy classifies
IsTemplateTick ==
  ticks' = ticks + 1 /\ tick'.ranChord /\ tick'.strategy = "templates"

\* C32: every smoothing counter is an integer within [0, FRAMES_TO_ACTIVATE
\* + 3]; a frame of the template strategy moves a counter by +1 (capped) or
\* by -2 (floored), and its smoothed degree list holds a degree if and only
\* if the degree's counter is at least FRAMES_TO_ACTIVATE after the frame.
C32_SmoothedIffCounted ==
  /\ [](\A d \in Degrees :
          degreeFrameCounts[d] \in 0..(FRAMES_TO_ACTIVATE + 3))
  /\ [][IsTemplateTick =>
          \A d \in Degrees :
            /\ degreeFrameCounts'[d] \in
                 {Min(degreeFrameCounts[d] + 1, FRAMES_TO_ACTIVATE + 3),
                  Max(degreeFrameCounts[d] - 2, 0)}
            /\ Includes(tick'.degrees, d)
                 <=> degreeFrameCounts'[d] >= FRAMES_TO_ACTIVATE]_vars

(***************************************************************************)
(* The degree-set matcher, checked under SpecPattern                       *)
(***************************************************************************)
\* (precision + recall) / 2 of pattern i for the detected set, as the
\* fraction C33_Over / C33_Under
C33_Over(detected, i) ==
  LET degrees == CHORD_PATTERNS[i].degrees
  IN Cardinality(detected \cap degrees)
       * (Cardinality(degrees) + Cardinality(detected))

C33_Under(detected, i) ==
  2 * Cardinality(detected) * Cardinality(CHORD_PATTERNS[i].degrees)

\* pattern i scores at least as much as every pattern
C33_IsBest(detected, i) ==
  \A j \in 1..Len(CHORD_PATTERNS) :
    C33_Over(detected, j) * C33_Under(detected, i)
      <= C33_Over(detected, i) * C33_Under(detected, j)

\* C33: the degree-set matcher returns no match for the empty set, pattern
\* P's own name and quality for exactly P's degrees (every pattern of the
\* table), and otherwise the name and quality of a pattern with the highest
\* (precision + recall) / 2, or the degrees joined by '-' with quality
\* 'unknown' when that score is under 0.6.
C33_MatcherPicksBestPattern ==
  probe.done =>
    LET detected == probe.detected
    IN /\ detected = {} => probe.result = NoMatch
       /\ \A i \in 1..Len(CHORD_PATTERNS) :
            detected = CHORD_PATTERNS[i].degrees =>
              /\ probe.result.name = CHORD_PATTERNS[i].name
              /\ probe.result.quality = CHORD_PATTERNS[i].quality
       /\ detected # {} =>
            \E i \in 1..Len(CHORD_PATTERNS) :
              /\ C33_IsBest(detected, i)
              /\ IF 10 * C33_Over(detected, i) < 6 * C33_Under(detected, i)
                 THEN /\ probe.result.name = Join(Ascending(detected))
                      /\ probe.result.quality = "unknown"
                 ELSE /\ probe.result.name = CHORD_PATTERNS[i].name
                      /\ probe.result.quality = CHORD_PATTERNS[i].quality

\* the four degrees of maj7, which hold the three of I, matched as maj7
C33_Witness ==
  /\ probe.done
  /\ probe.detected = {1, 3, 5, 7}
  /\ probe.result = [name |-> "maj7", quality |-> "major"]

(***************************************************************************)
(* The dwell gate under a pitch that moves from degree to degree, checked  *)
(* under SpecMic                                                           *)
(***************************************************************************)
\* C34: a frame that maps to a degree b while another degree a is the held
\* candidate makes b the candidate and restarts the dwell timer at that
\* frame, without a playNote call; and a run of frames on one degree whose
\* first frame started the timer has made no playNote call while it is
\* shorter than DWELL_THRESHOLD_MS, so that a pitch going to and fro between
\* two degrees, shorter than the threshold on each, never fires.
C34_SwitchRestartsDwell ==
  /\ [][(/\ frames' = frames + 1
         /\ dwellDegree # null
         /\ FrameDegree # null
         /\ FrameDegree # dwellDegree) =>
           /\ dwellDegree' = FrameDegree
           /\ dwellStartTime' = now'
           /\ hold'.fires = 0
           /\ call'.op # "playNote"]_vars
  /\ []((/\ hold.degree # null
         /\ dwellStartTime = hold.start
         /\ now - hold.start < DWELL_THRESHOLD_MS) =>
           /\ hold.fires = 0
           /\ dwellDegree = hold.degree)

\* two frames on degree 2, come to from another degree that was the
\* candidate: the timer runs from the first of them and nothing has fired
C34_Witness ==
  /\ hold.degree = 2
  /\ ~hold.clean
  /\ dwellDegree = 2
  /\ dwellStartTime = hold.start
  /\ now - hold.start >= 50
  /\ now - hold.start < DWELL_THRESHOLD_MS
  /\ hold.fires = 0

(***************************************************************************)
(* Claims about lastNote and direction, checked under Spec                 *)
(***************************************************************************)
\* C35: after every playNote(state, d), lastNote is d; the first note of a
\* fresh state leaves direction at 'none'; any later note sets it to
\* 'toward' when d's homeness is greater than the previous note's, to 'away'
\* when it is smaller and to 'none' when the two are equal.
C35_DirectionFollowsHomeness ==
  [][\A d \in Degrees : IsPlayStep(d) =>
       /\ state'.lastNote = d
       /\ IF state.lastNote = null
          THEN state'.direction = "none"
          ELSE state'.direction =
                 CASE homeness[d] > homeness[state.lastNote] -> "toward"
                   [] homeness[d] < homeness[state.lastNote] -> "away"
                   [] OTHER -> "none"]_vars

\* 5 played straight after 3 or 5, its equals in homeness, the leading tone
\* having been played before them (its tension is all that is left)
C35_Witness ==
  /\ call.op = "playNote"
  /\ call.degree = 5
  /\ state.lastNote = 5
  /\ state.direction = "none"
  /\ since.tensions = state.tensions
  /\ MapKeys(state.tensions) = {7}
  /\ steps = 4

(***************************************************************************)
(* The direction under frames that never end, checked under SpecLive       *)
(***************************************************************************)
\* C36: direction fades to 'none' over time if no new notes are played: once
\* a note has set it to 'toward' or 'away', the decay calls of the frames
\* that follow bring it back to 'none', unless another note is played.
C36_DirectionFades ==
  \A n \in 0..MaxNotes :
    (steps = n /\ state.direction # "none") ~>
      (steps # n \/ state.direction = "none")

(***************************************************************************)
(* What lowers a tension, checked under SpecMic                            *)
(***************************************************************************)
\* a click on a node: the event that leaves the key and the microphone
\* switch as they are
C37_IsClick == events' = events + 1 /\ key' = key /\ micActive' = micActive

\* the time the decay of a frame is given
C37_DeltaTime == IF lastTime = 0 THEN 0 ELSE now' - lastTime

\* C37: the tension of a degree e goes down only by decay (a frame that
\* passes time), by resolution (playNote of a degree that resolvesTo lists
\* for e) or by the reset of a key change; a click on d is never ignored: it
\* is playNote(state, d), which lowers neither the tension of d (it adds the
\* instability of an unstable d up to 1.0, click after click) nor that of a
\* degree that does not list d.
C37_OnlyDecayAndResolutionLower ==
  [][/\ \A e \in Degrees :
          TensionOf(state'.tensions, e) < T(e) =>
            \/ key' # key
            \/ frames' = frames + 1 /\ C37_DeltaTime > 0
            \/ /\ call'.op = "playNote"
               /\ frames' = frames + 1 \/ C37_IsClick
               /\ Includes(resolvesTo[e], call'.degree)
     /\ C37_IsClick =>
          LET d == call'.degree
          IN /\ call'.op = "playNote"
             /\ state' = playNote(state, d)
             /\ TensionOf(state'.tensions, d) >= T(d)
             /\ homeness[d] < One \div 2 =>
                  TensionOf(state'.tensions, d) =
                    Min(One, T(d) + One - homeness[d])
             /\ \A e \in Degrees :
                  ~Includes(resolvesTo[e], d) =>
                    TensionOf(state'.tensions, e) >= T(e)]_vars

\* a second click on the leading tone, straight after the first: its
\* tension has gone from 0.9 to 1.0
C37_Witness ==
  /\ events = 2
  /\ frames = 0
  /\ ~micActive
  /\ key = "C"
  /\ call.op = "playNote"
  /\ call.degree = 7
  /\ streak = [degree |-> 7, count |-> 2]
  /\ T(7) = One

(***************************************************************************)
(* The entries of the tension map, checked under Spec                      *)
(***************************************************************************)
\* C38: the tension map is sparse: after every playNote and every decay
\* (deltaTime >= 0) each entry present has a value of at least 0.01; no
\* entry of zero or nearly zero tension is kept.
C38_SparseMap ==
  \A i \in 1..Len(state.tensions) : state.tensions[i].amount >= Epsilon

\* a decay call has just taken an entry down to a value above 0 and under
\* 0.01, and the entry is gone
C38_Witness ==
  /\ call.op = "decay"
  /\ \E i \in 1..Len(since.tensions) :
       /\ since.tensions[i].amount - since.decayed > 0
       /\ since.tensions[i].amount - since.decayed < Epsilon
       /\ since.tensions[i].amount - since.decayed + DecayAmount(call.deltaTime)
            >= Epsilon
       /\ ~MapHas(state.tensions, since.tensions[i].degree)

(***************************************************************************)
(* The candidate and the established chord, checked under SpecChord        *)
(***************************************************************************)
\* C39: in every reachable state of the classifier, whatever frames either
\* strategy has classified and whenever chord mode was switched, a non-null
\* candidateChord differs from currentChord.
C39_CandidateIsNotCurrent ==
  candidateChord # nullName => candidateChord # currentChord

\* I is established and V has been the candidate for two frames
C39_Witness ==
  /\ currentChord = "I"
  /\ candidateChord = "V"
  /\ candidateFrames = 2
  /\ run = [match |-> "V", count |-> 2, fresh |-> FALSE]

====
